---- MODULE Spec2Model ----
(***************************************************************************)
(* The OpenVR frame loop of wlx-overlay-s: openvr_run() in                 *)
(* src/backend/openvr/mod.rs.  One action per statement group of the loop; *)
(* the collaborators the loop calls (runtime event poll, task queue,       *)
(* hooks, line pool, vsync query) appear through the values they return    *)
(* and the state they are documented to change.                            *)
(*                                                                         *)
(* Units: instants and durations of the device-refresh timer and of task   *)
(* due-times are whole seconds; ray lengths are multiples of 0.0001;       *)
(* frame pacing is in milliseconds.                                        *)
(***************************************************************************)
EXTENDS Integers, Sequences, FiniteSets, TLC

\* ---------------------------------------------------------------- bounds
\* Tasks submitted over one run (task ids are 1..MaxTasks).
MaxTasks == 2
\* The count of topology events drained in one batch saturates here.
MaxBurst == 2
\* The instants the clock takes, and the due-times tasks are submitted with.
Instants == {0, 1, 30}
DueTimes == {1, 30}
\* Selectors carried by overlay-scoped tasks: one that matches, one stale.
TaskSelectors == {"watch", "gone"}
\* Display frequencies (Hz) and vsync offsets (ms) the runtime reports.
RefreshRates == {90}
ElapsedMs == {0, 4, 11, 15}
\* The display frequencies the pacing arithmetic is checked for.
PacingRates == {30, 60, 72, 90, 120, 144, 240, 500, 1000, 1001, 2000}

\* ------------------------------------------------------ program constants
\* Duration::from_secs(30)
RefreshInterval == 30
\* dist > 0.001, in units of 0.0001
Threshold == 10
\* the fallback ray length 20.0, in units of 0.0001
DefaultLen == 200000

\* EVREventType, as far as the loop tells the variants apart.
TopologyEvents ==
    {"TrackedDeviceActivated", "TrackedDeviceDeactivated", "TrackedDeviceUpdated"}
EventTypes == {"Quit", "Other"} \cup TopologyEvents

\* The overlays OverlayContainer::new created, in iteration order.
OverlayOrder == <<"watch", "keyboard">>
Overlays == {OverlayOrder[k] : k \in 1..Len(OverlayOrder)}

\* input.pointers: one per hand.
Pointers == {0, 1}

\* An f32 distance: NaN, or a finite value.
Finite(v) == [nan |-> FALSE, v |-> v]
NaNDist == [nan |-> TRUE, v |-> 0]
\* What interact may return: a negative value, zero, exactly the threshold,
\* just above it, a far hit, and NaN.
DistSet == {Finite(-10), Finite(0), Finite(10), Finite(11), Finite(25), NaNDist}

NoEvent == "none"
\* seconds_since_vsync before the query: 0f32, and no result yet.
NoVsync == [ok |-> FALSE, elapsed |-> 0]
NoError == "none"
NoDraw == [handle |-> 0, origin |-> -1, dist |-> NaNDist, len |-> 0]

VARIABLES
    pc,                  \* the statement openvr_run is at
    now,                 \* the monotonic clock (Instant::now())
    next_device_update,  \* line 81
    quit_posted,         \* the runtime holds a quit event not yet polled
    quit_seen,           \* history: the loop has matched a quit event
    event,               \* the event bound by `while let Some(event)`
    tasks,               \* state.tasks: entries in submission order
    due_tasks,           \* line 82
    nextId,              \* id of the next task submitted
    invoked,             \* history: tasks whose closure ran in this drain
    want_visible,        \* o.state.want_visible of every overlay
    refresh_rate,        \* line 70, in Hz
    frame_time,          \* line 80, in ms
    line_id,             \* p.data.line_id of every pointer
    lines_allocated,     \* handles the line pool has given out
    idx,                 \* position of the running for_each
    lastDraw,            \* the last draw_from call not yet flushed
    draws,               \* history: handles drawn in this iteration
    trace,               \* history: phases completed in this iteration
    first_iter,          \* history: the loop is in its first iteration
    topo,                \* history: topology events drained in this batch
    updCalls,            \* history: update_devices calls of this iteration
    retrieved,           \* history: what retrieve_due gave this drain
    handled,             \* history: the tasks this drain took off due_tasks
    aiLog, rLog, arLog,  \* history: hook calls of this iteration
    vsync,               \* what get_time_since_last_vsync gave (line 164)
    sleep_ms,            \* the duration handed to thread::sleep
    init_error,          \* the startup step whose error was logged, if any
    finished,            \* ids of the tasks the drain has taken so far
    refreshed_at,        \* the instant the last device refresh completed
    written              \* overlays whose flag this iteration's tasks and
                         \* hooks have changed, until the hook passes are over

vars == <<pc, now, next_device_update, quit_posted, quit_seen, event,
          tasks, due_tasks, nextId, invoked, want_visible, refresh_rate,
          frame_time, line_id, lines_allocated, idx, lastDraw, draws,
          trace, first_iter, topo, updCalls, retrieved, handled, aiLog,
          rLog, arLog, vsync, sleep_ms, init_error, finished,
          refreshed_at, written>>

Init ==
    /\ pc = "ctx_init"
    /\ now = 0
    /\ next_device_update = 0
    /\ quit_posted = FALSE
    /\ quit_seen = FALSE
    /\ event = NoEvent
    /\ tasks = <<>>
    /\ due_tasks = <<>>
    /\ nextId = 1
    /\ invoked = {}
    /\ want_visible \in [Overlays -> BOOLEAN]
    /\ refresh_rate = 0
    /\ frame_time = 0
    /\ line_id = [p \in Pointers |-> 0]
    /\ lines_allocated = 0
    /\ idx = 0
    /\ lastDraw = NoDraw
    /\ draws = <<>>
    /\ trace = <<>>
    /\ first_iter = TRUE
    /\ topo = 0
    /\ updCalls = 0
    /\ retrieved = <<>>
    /\ handled = <<>>
    /\ aiLog = <<>>
    /\ rLog = <<>>
    /\ arLog = <<>>
    /\ vsync = NoVsync
    /\ sleep_ms = 0
    /\ init_error = NoError
    /\ finished = {}
    /\ refreshed_at = 0
    /\ written = {}

\* openvr_run has returned (quit, startup error) or unwound (panic).
Terminated == pc \in {"done", "failed", "panic"}
\* AppState (and with it state.tasks) exists from line 55 on.
StateExists == pc \notin {"ctx_init", "done", "failed", "panic"}

\* A variant of LoopOrder: the render pass placed ahead of after_input.
LoopOrderRenderFirst ==
    <<"events", "refresh", "retrieve", "pre_update", "update", "post_update",
      "interact", "lines_update", "render", "after_input", "after_render",
      "pace">>

\* The statements of the loop body in program order, each named by the
\* label of its first step; NextPhase is the statement that follows.
LoopOrder ==
    <<"events", "refresh", "retrieve", "pre_update", "update", "post_update",
      "interact", "lines_update", "after_input", "render", "after_render",
      "pace">>
NextPhase(at) ==
    LET k == CHOOSE j \in 1..Len(LoopOrder) : LoopOrder[j] = at
    IN  IF k < Len(LoopOrder) THEN LoopOrder[k + 1] ELSE "sleeping"

\* ------------------------------------------------------------ environment
\* Time passes between any two statements.
Tick ==
    /\ ~Terminated
    /\ \E t \in Instants : t > now /\ now' = t
    /\ UNCHANGED <<pc, next_device_update, quit_posted, quit_seen, event,
                     tasks, due_tasks, nextId, invoked, want_visible,
                     refresh_rate, frame_time, line_id, lines_allocated,
                     idx, lastDraw, draws, trace, first_iter, topo,
                     updCalls, retrieved, handled, aiLog, rLog, arLog,
                     vsync, sleep_ms, init_error, finished, refreshed_at,
                     written>>

\* The runtime queues a quit event.
PostQuit ==
    /\ ~Terminated
    /\ ~quit_posted
    /\ quit_posted' = TRUE
    /\ UNCHANGED <<pc, now, next_device_update, quit_seen, event, tasks,
                     due_tasks, nextId, invoked, want_visible, refresh_rate,
                     frame_time, line_id, lines_allocated, idx, lastDraw,
                     draws, trace, first_iter, topo, updCalls, retrieved,
                     handled, aiLog, rLog, arLog, vsync, sleep_ms,
                     init_error, finished, refreshed_at, written>>

\* TaskType::Global(f) and TaskType::Overlay(sel, f), with the due-time.
NewTasks ==
    {[id |-> nextId, due |-> d, kind |-> "Global", sel |-> "none"] : d \in DueTimes}
    \cup {[id |-> nextId, due |-> d, kind |-> "Overlay", sel |-> s] :
            d \in DueTimes, s \in TaskSelectors}

\* submit(task, due_time): the entry goes behind the entries already there.
Enqueue(q, t) == Append(q, t)

\* A producer outside the loop thread, or a hook, submits a task.
Submit ==
    /\ StateExists
    /\ nextId <= MaxTasks
    /\ \E t \in NewTasks : tasks' = Enqueue(tasks, t)
    /\ nextId' = nextId + 1
    /\ UNCHANGED <<pc, now, next_device_update, quit_posted, quit_seen,
                     event, due_tasks, invoked, want_visible, refresh_rate,
                     frame_time, line_id, lines_allocated, idx, lastDraw,
                     draws, trace, first_iter, topo, updCalls, retrieved,
                     handled, aiLog, rLog, arLog, vsync, sleep_ms,
                     init_error, finished, refreshed_at, written>>

\* ---------------------------------------------------------------- startup
\* (1000.0 / refresh_rate).floor(), the frame interval in ms.
FrameTime(r) == 1000 \div r

OnInitErrorContinues(next) == next

\* Lines 33 to 35, 60 to 63, 65 to 68 and 75 to 77: log the error, return.
OnInitError(next) == "failed"

\* One fallible startup step: on Ok the next statement, on Err the return.
Startup(at, next) ==
    /\ pc = at
    /\ \E ok \in BOOLEAN :
         IF ok THEN pc' = next /\ UNCHANGED init_error
               ELSE pc' = OnInitError(next) /\ init_error' = at
    /\ UNCHANGED <<now, next_device_update, quit_posted, quit_seen, event,
                     tasks, due_tasks, nextId, invoked, want_visible,
                     refresh_rate, frame_time, line_id, lines_allocated,
                     idx, lastDraw, draws, trace, first_iter, topo,
                     updCalls, retrieved, handled, aiLog, rLog, arLog,
                     vsync, sleep_ms, finished, refreshed_at, written>>

\* ovr_overlay::Context::init, then the managers, AppState and the overlays.
ContextInit == Startup("ctx_init", "set_manifest")
SetActionManifest == Startup("set_manifest", "input_new")
InputStateNew == Startup("input_new", "refresh_rate")

\* Lines 70 to 78, the runtime reporting one of the frequencies in rates.
QueryRefreshRate(rates) ==
    /\ pc = "refresh_rate"
    /\ \/ /\ pc' = OnInitError("setup")
          /\ init_error' = "refresh_rate"
          /\ UNCHANGED refresh_rate
       \/ /\ \E r \in rates : refresh_rate' = r
          /\ pc' = "setup"
          /\ UNCHANGED init_error
    /\ UNCHANGED <<now, next_device_update, quit_posted, quit_seen, event,
                     tasks, due_tasks, nextId, invoked, want_visible,
                     frame_time, line_id, lines_allocated, idx, lastDraw,
                     draws, trace, first_iter, topo, updCalls, retrieved,
                     handled, aiLog, rLog, arLog, vsync, sleep_ms, finished,
                     refreshed_at, written>>

GetRefreshRate == QueryRefreshRate(RefreshRates)

\* lines.allocate: the next handle of the pool.
Allocate(n) == n + 1

\* Lines 80 to 86: everything the loop carries across iterations.
Setup ==
    /\ pc = "setup"
    /\ frame_time' = FrameTime(refresh_rate)
    /\ next_device_update' = now
    /\ due_tasks' = <<>>
    /\ line_id' = [p \in Pointers |->
                     IF p = 0 THEN Allocate(lines_allocated)
                     ELSE Allocate(Allocate(lines_allocated))]
    /\ lines_allocated' = Allocate(Allocate(lines_allocated))
    /\ pc' = "events"
    /\ UNCHANGED <<now, quit_posted, quit_seen, event, tasks, nextId,
                     invoked, want_visible, refresh_rate, idx, lastDraw,
                     draws, trace, first_iter, topo, updCalls, retrieved,
                     handled, aiLog, rLog, arLog, vsync, sleep_ms,
                     init_error, finished, refreshed_at, written>>

\* ------------------------------------------------------------ event drain
\* What poll_next_event can return: any event queued ahead of a posted quit,
\* the quit itself, or None when no quit is waiting.
PollResults ==
    IF quit_posted THEN EventTypes ELSE (EventTypes \ {"Quit"}) \cup {NoEvent}

\* Line 89: one evaluation of the `while let` condition.
PollNextEvent ==
    /\ pc = "events"
    /\ \E e \in PollResults :
         IF e = NoEvent
         THEN /\ pc' = NextPhase("events")
              /\ trace' = Append(trace, "events")
              /\ UNCHANGED <<event, quit_posted>>
         ELSE /\ pc' = "match"
              /\ event' = e
              /\ quit_posted' = IF e = "Quit" THEN FALSE ELSE quit_posted
              /\ UNCHANGED trace
    /\ UNCHANGED <<now, next_device_update, quit_seen, tasks, due_tasks,
                     nextId, invoked, want_visible, refresh_rate,
                     frame_time, line_id, lines_allocated, idx, lastDraw,
                     draws, first_iter, topo, updCalls, retrieved, handled,
                     aiLog, rLog, arLog, vsync, sleep_ms, init_error,
                     finished, refreshed_at, written>>

\* A variant of QuitTarget: `break` out of the event drain only.
QuitTargetBreak == "refresh"

\* Line 93: `return` leaves openvr_run.
QuitTarget == "done"

\* Lines 91 to 94.
OnQuit ==
    /\ event = "Quit"
    /\ quit_seen' = TRUE
    /\ pc' = QuitTarget
    /\ UNCHANGED <<next_device_update, topo, updCalls>>

\* A variant of OnTopologyEvent: the refresh done at once, in the drain.
OnTopologyEventRefreshes ==
    /\ event \in TopologyEvents
    /\ next_device_update' = now
    /\ topo' = IF topo < MaxBurst THEN topo + 1 ELSE MaxBurst
    /\ updCalls' = updCalls + 1
    /\ pc' = "events"
    /\ UNCHANGED quit_seen

\* Lines 95 to 99.
OnTopologyEvent ==
    /\ event \in TopologyEvents
    /\ next_device_update' = now
    /\ topo' = IF topo < MaxBurst THEN topo + 1 ELSE MaxBurst
    /\ pc' = "events"
    /\ UNCHANGED <<quit_seen, updCalls>>

\* Line 100.
OnOtherEvent ==
    /\ event \notin TopologyEvents \cup {"Quit"}
    /\ pc' = "events"
    /\ UNCHANGED <<next_device_update, quit_seen, topo, updCalls>>

\* Lines 90 to 101: the match on event.event_type.
MatchEvent ==
    /\ pc = "match"
    /\ \/ OnQuit
       \/ OnTopologyEvent
       \/ OnOtherEvent
    /\ event' = NoEvent
    /\ UNCHANGED <<now, quit_posted, tasks, due_tasks, nextId, invoked,
                     want_visible, refresh_rate, frame_time, line_id,
                     lines_allocated, idx, lastDraw, draws, trace,
                     first_iter, retrieved, handled, aiLog, rLog, arLog,
                     vsync, sleep_ms, init_error, finished, refreshed_at,
                     written>>

\* --------------------------------------------------------- device refresh
RefreshDueAlways(next, t) == TRUE

\* Line 104.
RefreshDue(next, t) == next <= t

RefreshCheck ==
    /\ pc = "refresh"
    /\ IF RefreshDue(next_device_update, now)
       THEN pc' = "update_devices" /\ UNCHANGED trace
       ELSE pc' = NextPhase("refresh") /\ trace' = Append(trace, "refresh")
    /\ UNCHANGED <<now, next_device_update, quit_posted, quit_seen, event,
                     tasks, due_tasks, nextId, invoked, want_visible,
                     refresh_rate, frame_time, line_id, lines_allocated,
                     idx, lastDraw, draws, first_iter, topo, updCalls,
                     retrieved, handled, aiLog, rLog, arLog, vsync,
                     sleep_ms, init_error, finished, refreshed_at, written>>

\* Line 105.
UpdateDevices ==
    /\ pc = "update_devices"
    /\ updCalls' = updCalls + 1
    /\ pc' = "reschedule"
    /\ UNCHANGED <<now, next_device_update, quit_posted, quit_seen, event,
                     tasks, due_tasks, nextId, invoked, want_visible,
                     refresh_rate, frame_time, line_id, lines_allocated,
                     idx, lastDraw, draws, trace, first_iter, topo,
                     retrieved, handled, aiLog, rLog, arLog, vsync,
                     sleep_ms, init_error, finished, refreshed_at, written>>

\* A variant of NextRefresh: 30 s after the previous due-time.
NextRefreshFromDue(t) == next_device_update + RefreshInterval

\* Line 106.
NextRefresh(t) == t + RefreshInterval

Reschedule ==
    /\ pc = "reschedule"
    /\ next_device_update' = NextRefresh(now)
    /\ refreshed_at' = now
    /\ trace' = Append(trace, "refresh")
    /\ pc' = NextPhase("refresh")
    /\ UNCHANGED <<now, quit_posted, quit_seen, event, tasks, due_tasks,
                     nextId, invoked, want_visible, refresh_rate,
                     frame_time, line_id, lines_allocated, idx, lastDraw,
                     draws, first_iter, topo, updCalls, retrieved, handled,
                     aiLog, rLog, arLog, vsync, sleep_ms, init_error,
                     finished, written>>

\* ------------------------------------------------------------- task drain
\* A variant of DueEntries: an entry due exactly at t is not yet due.
DueEntriesStrict(q, t) == SelectSeq(q, LAMBDA e : e.due < t)

\* retrieve_due: the entries whose due-time has elapsed at instant t, and
\* the entries it leaves, each in submission order.
DueEntries(q, t) == SelectSeq(q, LAMBDA e : e.due <= t)
LaterEntries(q, t) == SelectSeq(q, LAMBDA e : e.due > t)

\* Line 109: state.tasks.retrieve_due(&mut due_tasks).
RetrieveDue ==
    /\ pc = "retrieve"
    /\ due_tasks' = due_tasks \o DueEntries(tasks, now)
    /\ tasks' = LaterEntries(tasks, now)
    /\ retrieved' = due_tasks'
    /\ topo' = 0
    /\ updCalls' = 0
    /\ pc' = "drain"
    /\ UNCHANGED <<now, next_device_update, quit_posted, quit_seen, event,
                     nextId, invoked, want_visible, refresh_rate,
                     frame_time, line_id, lines_allocated, idx, lastDraw,
                     draws, trace, first_iter, handled, aiLog, rLog, arLog,
                     vsync, sleep_ms, init_error, finished, refreshed_at,
                     written>>

\* overlays.mut_by_selector(&sel) is Some exactly for an overlay it holds.
SelectorMatches(sel) == sel \in Overlays

\* A closure may submit a task of its own while it runs.
ClosureSubmits ==
    \/ UNCHANGED <<tasks, nextId>>
    \/ /\ nextId <= MaxTasks
       /\ \E t \in NewTasks : tasks' = Enqueue(tasks, t)
       /\ nextId' = nextId + 1

\* Line 112: TaskType::Global(f) => f(&mut state).
ExecGlobal(task) ==
    /\ task.kind = "Global"
    /\ invoked' = invoked \cup {task.id}
    /\ ClosureSubmits
    /\ UNCHANGED <<want_visible, written>>

\* A closure or hook leaves o.state.want_visible of overlay o at v.
SetVisible(o, v) ==
    /\ want_visible' = [want_visible EXCEPT ![o] = v]
    /\ written' = IF v # want_visible[o] THEN written \cup {o} ELSE written

\* Lines 113 to 116, the selector found: f(&mut state, &mut o.state).
ExecOverlay(task) ==
    /\ task.kind = "Overlay"
    /\ SelectorMatches(task.sel)
    /\ invoked' = invoked \cup {task.id}
    /\ \E v \in BOOLEAN : SetVisible(task.sel, v)
    /\ ClosureSubmits

\* A variant of SkipStale: the closure is called without its overlay.
SkipStaleRuns(task) ==
    /\ task.kind = "Overlay"
    /\ ~SelectorMatches(task.sel)
    /\ invoked' = invoked \cup {task.id}
    /\ UNCHANGED <<want_visible, written, tasks, nextId>>

\* Lines 113 to 117, mut_by_selector returned None.
SkipStale(task) ==
    /\ task.kind = "Overlay"
    /\ ~SelectorMatches(task.sel)
    /\ UNCHANGED <<invoked, want_visible, written, tasks, nextId>>

\* A variant of PopFront: pop_back.
PopBack(buf) == [task |-> buf[Len(buf)], rest |-> SubSeq(buf, 1, Len(buf) - 1)]

\* Line 110: pop_front takes the first task and leaves the ones behind it.
PopFront(buf) == [task |-> Head(buf), rest |-> Tail(buf)]

\* Lines 110 to 119: one turn of `while let Some(task) = due_tasks.pop_front()`.
DrainStep ==
    /\ pc = "drain"
    /\ due_tasks # <<>>
    /\ LET popped == PopFront(due_tasks) IN
         /\ due_tasks' = popped.rest
         /\ handled' = Append(handled, popped.task)
         /\ finished' = finished \cup {popped.task.id}
         /\ \/ ExecGlobal(popped.task)
            \/ ExecOverlay(popped.task)
            \/ SkipStale(popped.task)
    /\ UNCHANGED <<pc, now, next_device_update, quit_posted, quit_seen,
                     event, refresh_rate, frame_time, line_id,
                     lines_allocated, idx, lastDraw, draws, trace,
                     first_iter, topo, updCalls, retrieved, aiLog, rLog,
                     arLog, vsync, sleep_ms, init_error, refreshed_at>>

\* A variant of DrainDone: retrieve again until nothing is due.
DrainDoneRetrieves ==
    /\ pc = "drain"
    /\ due_tasks = <<>>
    /\ IF DueEntries(tasks, now) # <<>>
       THEN /\ due_tasks' = DueEntries(tasks, now)
            /\ tasks' = LaterEntries(tasks, now)
            /\ UNCHANGED <<pc, trace, retrieved, handled, invoked>>
       ELSE /\ pc' = NextPhase("retrieve")
            /\ trace' = Append(trace, "retrieve")
            /\ retrieved' = <<>>
            /\ handled' = <<>>
            /\ invoked' = {}
            /\ UNCHANGED <<due_tasks, tasks>>
    /\ UNCHANGED <<now, next_device_update, quit_posted, quit_seen, event,
                     nextId, want_visible, refresh_rate, frame_time,
                     line_id, lines_allocated, idx, lastDraw, draws,
                     first_iter, topo, updCalls, aiLog, rLog, arLog, vsync,
                     sleep_ms, init_error, finished, refreshed_at, written>>

\* A variant of DrainDone: the loop is left after any turn (`if let`).
DrainDoneAnyTime ==
    /\ pc = "drain"
    /\ pc' = NextPhase("retrieve")
    /\ trace' = Append(trace, "retrieve")
    /\ retrieved' = <<>>
    /\ handled' = <<>>
    /\ invoked' = {}
    /\ UNCHANGED <<now, next_device_update, quit_posted, quit_seen, event,
                     tasks, due_tasks, nextId, want_visible, refresh_rate,
                     frame_time, line_id, lines_allocated, idx, lastDraw,
                     draws, first_iter, topo, updCalls, aiLog, rLog, arLog,
                     vsync, sleep_ms, init_error, finished, refreshed_at,
                     written>>

\* Line 110, pop_front returned None: the loop is left.
DrainDone ==
    /\ pc = "drain"
    /\ due_tasks = <<>>
    /\ pc' = NextPhase("retrieve")
    /\ trace' = Append(trace, "retrieve")
    /\ retrieved' = <<>>
    /\ handled' = <<>>
    /\ invoked' = {}
    /\ UNCHANGED <<now, next_device_update, quit_posted, quit_seen, event,
                     tasks, due_tasks, nextId, want_visible, refresh_rate,
                     frame_time, line_id, lines_allocated, idx, lastDraw,
                     draws, first_iter, topo, updCalls, aiLog, rLog, arLog,
                     vsync, sleep_ms, init_error, finished, refreshed_at,
                     written>>

\* ------------------------------------------------------------ input cycle
\* Lines 121 to 123.
PreUpdate ==
    /\ pc = "pre_update"
    /\ pc' = NextPhase("pre_update")
    /\ trace' = Append(trace, "pre_update")
    /\ UNCHANGED <<now, next_device_update, quit_posted, quit_seen, event,
                     tasks, due_tasks, nextId, invoked, want_visible,
                     refresh_rate, frame_time, line_id, lines_allocated,
                     idx, lastDraw, draws, first_iter, topo, updCalls,
                     retrieved, handled, aiLog, rLog, arLog, vsync,
                     sleep_ms, init_error, finished, refreshed_at, written>>

InputUpdate ==
    /\ pc = "update"
    /\ pc' = NextPhase("update")
    /\ trace' = Append(trace, "update")
    /\ UNCHANGED <<now, next_device_update, quit_posted, quit_seen, event,
                     tasks, due_tasks, nextId, invoked, want_visible,
                     refresh_rate, frame_time, line_id, lines_allocated,
                     idx, lastDraw, draws, first_iter, topo, updCalls,
                     retrieved, handled, aiLog, rLog, arLog, vsync,
                     sleep_ms, init_error, finished, refreshed_at, written>>

PostUpdate ==
    /\ pc = "post_update"
    /\ pc' = NextPhase("post_update")
    /\ trace' = Append(trace, "post_update")
    /\ UNCHANGED <<now, next_device_update, quit_posted, quit_seen, event,
                     tasks, due_tasks, nextId, invoked, want_visible,
                     refresh_rate, frame_time, line_id, lines_allocated,
                     idx, lastDraw, draws, first_iter, topo, updCalls,
                     retrieved, handled, aiLog, rLog, arLog, vsync,
                     sleep_ms, init_error, finished, refreshed_at, written>>

\* ------------------------------------------------------ pointers and rays
\* A variant of Greater: a >= b.
GreaterOrEqual(a, b) == ~a.nan /\ a.v >= b

\* The f32 comparison a > b: false when a is NaN.
Greater(a, b) == ~a.nan /\ a.v > b

\* Lines 127 to 132: the length handed to draw_from.
RayLength(d) == IF Greater(d, Threshold) THEN d.v ELSE DefaultLen

DrawCallFirstLine(p, d) ==
    [handle |-> line_id[0], origin |-> p, dist |-> d, len |-> RayLength(d)]

\* Lines 127 to 132: draw_from(p.data.line_id, p.pose, length, Vec4::ONE);
\* origin names the pointer whose pose is passed, dist what interact returned.
DrawCall(p, d) ==
    [handle |-> line_id[p], origin |-> p, dist |-> d, len |-> RayLength(d)]

\* Lines 125 to 133: the closure of for_each, for the pointer at idx.
InteractAndDraw ==
    /\ pc = "interact"
    /\ \E d \in DistSet : lastDraw' = DrawCall(idx, d)
    /\ draws' = Append(draws, lastDraw'.handle)
    /\ IF idx + 1 < Cardinality(Pointers)
       THEN idx' = idx + 1 /\ UNCHANGED <<pc, trace>>
       ELSE idx' = 0 /\ pc' = NextPhase("interact")
                     /\ trace' = Append(trace, "interact")
    /\ UNCHANGED <<now, next_device_update, quit_posted, quit_seen, event,
                     tasks, due_tasks, nextId, invoked, want_visible,
                     refresh_rate, frame_time, line_id, lines_allocated,
                     first_iter, topo, updCalls, retrieved, handled, aiLog,
                     rLog, arLog, vsync, sleep_ms, init_error, finished,
                     refreshed_at, written>>

\* Line 135: lines.update flushes the pending geometry.
LinesUpdate ==
    /\ pc = "lines_update"
    /\ lastDraw' = NoDraw
    /\ pc' = NextPhase("lines_update")
    /\ trace' = Append(trace, "lines_update")
    /\ UNCHANGED <<now, next_device_update, quit_posted, quit_seen, event,
                     tasks, due_tasks, nextId, invoked, want_visible,
                     refresh_rate, frame_time, line_id, lines_allocated,
                     idx, draws, first_iter, topo, updCalls, retrieved,
                     handled, aiLog, rLog, arLog, vsync, sleep_ms,
                     init_error, finished, refreshed_at, written>>

\* ------------------------------------------------------------------ hooks
\* One turn of a for_each over the overlays; the last one ends the phase.
Advance(at) ==
    IF idx + 1 < Len(OverlayOrder)
    THEN idx' = idx + 1 /\ UNCHANGED <<pc, trace>>
    ELSE idx' = 0 /\ pc' = NextPhase(at) /\ trace' = Append(trace, at)

\* Lines 137 to 139; the hook may write its overlay's state.
AfterInput ==
    /\ pc = "after_input"
    /\ LET o == OverlayOrder[idx + 1] IN
         /\ aiLog' = Append(aiLog, o)
         /\ \E v \in BOOLEAN : SetVisible(o, v)
    /\ Advance("after_input")
    /\ UNCHANGED <<now, next_device_update, quit_posted, quit_seen, event,
                     tasks, due_tasks, nextId, invoked, refresh_rate,
                     frame_time, line_id, lines_allocated, lastDraw, draws,
                     first_iter, topo, updCalls, retrieved, handled, rLog,
                     arLog, vsync, sleep_ms, init_error, finished,
                     refreshed_at>>

\* A variant of RenderGate: no filter.
RenderGateAlways(o) == TRUE

\* Line 145: .filter(|o| o.state.want_visible).
RenderGate(o) == want_visible[o]

\* Lines 143 to 146.
Render ==
    /\ pc = "render"
    /\ LET o == OverlayOrder[idx + 1] IN
         rLog' = IF RenderGate(o) THEN Append(rLog, o) ELSE rLog
    /\ Advance("render")
    /\ UNCHANGED <<now, next_device_update, quit_posted, quit_seen, event,
                     tasks, due_tasks, nextId, invoked, want_visible,
                     refresh_rate, frame_time, line_id, lines_allocated,
                     lastDraw, draws, first_iter, topo, updCalls, retrieved,
                     handled, aiLog, arLog, vsync, sleep_ms, init_error,
                     finished, refreshed_at, written>>

\* Lines 150 to 152.
AfterRender ==
    /\ pc = "after_render"
    /\ arLog' = Append(arLog, OverlayOrder[idx + 1])
    /\ Advance("after_render")
    /\ UNCHANGED <<now, next_device_update, quit_posted, quit_seen, event,
                     tasks, due_tasks, nextId, invoked, want_visible,
                     refresh_rate, frame_time, line_id, lines_allocated,
                     lastDraw, draws, first_iter, topo, updCalls, retrieved,
                     handled, aiLog, rLog, vsync, sleep_ms, init_error,
                     finished, refreshed_at, written>>

\* ----------------------------------------------------------- frame pacing
\* What the vsync query can give: failure with seconds_since_vsync left at
\* 0, or success with the time since the last vsync.
VsyncResults ==
    {NoVsync} \cup {[ok |-> TRUE, elapsed |-> e] : e \in ElapsedMs}

\* Line 165: seconds_since_vsync % frame_time is NaN when frame_time is 0.0,
\* and so is the difference handed to Duration::from_secs_f32.
SleepIsNaN(ok) == ok /\ frame_time = 0

SleepDurationElapsed(ok, elapsed) ==
    IF ok THEN elapsed % frame_time ELSE frame_time

\* Lines 164 to 168: the sleep duration, from the vsync query's result.
SleepDuration(ok, elapsed) ==
    IF ok THEN frame_time - (elapsed % frame_time) ELSE frame_time

\* Lines 160 to 169, up to the call of thread::sleep; from_secs_f32 panics
\* on NaN.
Pace ==
    /\ pc = "pace"
    /\ written' = {}
    /\ \E q \in VsyncResults :
         /\ vsync' = q
         /\ IF SleepIsNaN(q.ok)
            THEN pc' = "panic" /\ UNCHANGED <<sleep_ms, trace>>
            ELSE /\ sleep_ms' = SleepDuration(q.ok, q.elapsed)
                 /\ pc' = NextPhase("pace")
                 /\ trace' = Append(trace, "pace")
    /\ UNCHANGED <<now, next_device_update, quit_posted, quit_seen, event,
                     tasks, due_tasks, nextId, invoked, want_visible,
                     refresh_rate, frame_time, line_id, lines_allocated,
                     idx, lastDraw, draws, first_iter, topo, updCalls,
                     retrieved, handled, aiLog, rLog, arLog, init_error,
                     finished, refreshed_at>>

\* thread::sleep returns and the loop starts over (line 88).
Wake ==
    /\ pc = "sleeping"
    /\ pc' = LoopOrder[1]
    /\ sleep_ms' = 0
    /\ vsync' = NoVsync
    /\ first_iter' = FALSE
    /\ draws' = <<>>
    /\ trace' = <<>>
    /\ aiLog' = <<>>
    /\ rLog' = <<>>
    /\ arLog' = <<>>
    /\ UNCHANGED <<now, next_device_update, quit_posted, quit_seen, event,
                     tasks, due_tasks, nextId, invoked, want_visible,
                     refresh_rate, frame_time, line_id, lines_allocated,
                     idx, lastDraw, topo, updCalls, retrieved, handled,
                     init_error, finished, refreshed_at, written>>

\* ---------------------------------------------------------- specification
Next ==
    \/ Tick
    \/ PostQuit
    \/ Submit
    \/ ContextInit
    \/ SetActionManifest
    \/ InputStateNew
    \/ GetRefreshRate
    \/ Setup
    \/ PollNextEvent
    \/ MatchEvent
    \/ RefreshCheck
    \/ UpdateDevices
    \/ Reschedule
    \/ RetrieveDue
    \/ DrainStep
    \/ DrainDone
    \/ PreUpdate
    \/ InputUpdate
    \/ PostUpdate
    \/ InteractAndDraw
    \/ LinesUpdate
    \/ AfterInput
    \/ Render
    \/ AfterRender
    \/ Pace
    \/ Wake

Spec == Init /\ [][Next]_vars

\* The program alone, for every frequency of PacingRates: the clock stands
\* still, nothing is submitted (so the drain never has a task to take) and
\* no quit is posted.
PacingRefreshRate == QueryRefreshRate(PacingRates)

PacingNext ==
    \/ ContextInit
    \/ SetActionManifest
    \/ InputStateNew
    \/ PacingRefreshRate
    \/ Setup
    \/ PollNextEvent
    \/ MatchEvent
    \/ RefreshCheck
    \/ UpdateDevices
    \/ Reschedule
    \/ RetrieveDue
    \/ DrainDone
    \/ PreUpdate
    \/ InputUpdate
    \/ PostUpdate
    \/ InteractAndDraw
    \/ LinesUpdate
    \/ AfterInput
    \/ Render
    \/ AfterRender
    \/ Pace
    \/ Wake

SpecPacing == Init /\ [][PacingNext]_vars

\* One step of the thread that runs the loop.
LoopStep ==
    \/ PollNextEvent
    \/ MatchEvent
    \/ RefreshCheck
    \/ UpdateDevices
    \/ Reschedule
    \/ RetrieveDue
    \/ DrainStep
    \/ DrainDone
    \/ PreUpdate
    \/ InputUpdate
    \/ PostUpdate
    \/ InteractAndDraw
    \/ LinesUpdate
    \/ AfterInput
    \/ Render
    \/ AfterRender
    \/ Pace
    \/ Wake

\* Line 89: poll_next_event finds the runtime's queue empty.
PollNone == PollNextEvent /\ pc' = NextPhase("events")

\* Every action but the posting of a quit event.
LiveNext ==
    \/ Tick
    \/ Submit
    \/ ContextInit
    \/ SetActionManifest
    \/ InputStateNew
    \/ GetRefreshRate
    \/ Setup
    \/ LoopStep

\* The loop that keeps iterating: no quit event is ever delivered, the
\* thread keeps running (every call it makes returns), and the runtime's
\* event queue is found empty again and again.
SpecLive ==
    /\ Init /\ [][LiveNext]_vars
    /\ WF_vars(LoopStep)
    /\ SF_vars(PollNone)

\* ------------------------------------------------------------- properties
Range(s) == {s[k] : k \in 1..Len(s)}
IsPrefix(s, t) == Len(s) <= Len(t) /\ \A k \in 1..Len(s) : s[k] = t[k]
SortedById(s) == \A j, k \in 1..Len(s) : j < k => s[j].id < s[k].id
IsStale(task) == task.kind = "Overlay" /\ task.sel \notin Overlays
InLoop == pc \notin {"ctx_init", "set_manifest", "input_new", "refresh_rate",
                     "setup", "done", "failed", "panic"}

\* C1: once the event drain has matched a quit event, openvr_run has
\* returned, in that same iteration: nothing of the iteration has run after
\* the drain (no phase is completed, no update_devices call, no task
\* retrieved, taken or executed, no line drawn, no hook called, no sleep),
\* whatever topology events came before the quit and whatever was due.
C1_QuitReturnsAtOnce ==
    quit_seen =>
        /\ pc = "done"
        /\ trace = <<>>
        /\ updCalls = 0
        /\ retrieved = <<>> /\ handled = <<>> /\ invoked = {}
        /\ due_tasks = <<>>
        /\ draws = <<>> /\ lastDraw = NoDraw
        /\ aiLog = <<>> /\ rLog = <<>> /\ arLog = <<>>
        /\ sleep_ms = 0 /\ vsync = NoVsync

\* The loop has returned on a quit that followed topology events, with the
\* refresh timer due and a task due in the queue.
C1_Witness ==
    /\ pc = "done" /\ quit_seen
    /\ topo > 0
    /\ next_device_update <= now
    /\ \E k \in 1..Len(tasks) : tasks[k].due <= now

\* The phases of one iteration, in the order the contract gives them.
PhaseOrder ==
    <<"events", "refresh", "retrieve", "pre_update", "update", "post_update",
      "interact", "lines_update", "after_input", "render", "after_render",
      "pace">>
\* The phase a step of the loop belongs to.
PhaseOf(at) ==
    CASE at = "match" -> "events"
      [] at \in {"update_devices", "reschedule"} -> "refresh"
      [] at = "drain" -> "retrieve"
      [] OTHER -> at

\* C2: in an iteration that does not quit the phases complete once each and
\* in the contract's order (the phases completed so far are always a prefix
\* of that order, and the phase being run is the one that comes next); the
\* sleep is reached with every phase completed, and the event drain of the
\* next iteration only runs once the sleep has returned.
C2_PhasesInOrder ==
    /\ IsPrefix(trace, PhaseOrder)
    /\ pc = "sleeping" => trace = PhaseOrder
    /\ (InLoop /\ pc # "sleeping") => PhaseOf(pc) = PhaseOrder[Len(trace) + 1]

\* A second iteration has run all its phases and is asleep.
C2_Witness == pc = "sleeping" /\ ~first_iter /\ trace = PhaseOrder

\* C3: retrieve_due at instant T moves exactly the entries with due-time
\* <= T (T itself included) to the buffer and keeps the others, both in
\* submission order; over any run no entry is in the buffer before its
\* due-time, and none is delivered twice (an entry is never both queued and
\* delivered, and the queue and the delivery hold no entry twice).
C3_RetrieveDueExact ==
    /\ [](/\ SortedById(tasks)
          /\ SortedById(handled \o due_tasks)
          /\ \A e \in Range(tasks), d \in Range(handled \o due_tasks) : e.id # d.id
          /\ \A d \in Range(handled \o due_tasks) : d.due <= now)
    /\ [][(pc = "retrieve" /\ pc' = "drain") =>
            /\ \A k \in 1..Len(tasks) :
                 IF tasks[k].due <= now
                 THEN tasks[k] \in Range(due_tasks') /\ tasks[k] \notin Range(tasks')
                 ELSE tasks[k] \in Range(tasks') /\ tasks[k] \notin Range(due_tasks')
            /\ Range(due_tasks') \subseteq Range(tasks)
            /\ Range(tasks') \subseteq Range(tasks)]_vars

\* retrieve_due has delivered an entry due exactly now and left an entry
\* submitted before it, which is due later.
C3_Witness ==
    /\ pc = "drain" /\ handled = <<>>
    /\ \E d \in Range(due_tasks), e \in Range(tasks) :
         d.due = now /\ e.due > now /\ e.id < d.id

\* C4: the drain takes every retrieved task off the front of the buffer
\* once, in the order of retrieval (what was taken, followed by what is
\* still buffered, is what retrieve_due delivered); outside the drain the
\* buffer is empty, so nothing is carried into the input update or into a
\* later iteration.
C4_DrainInOrderAndEmpty ==
    /\ pc = "drain" => handled \o due_tasks = retrieved
    /\ pc # "drain" => (due_tasks = <<>> /\ handled = <<>>)

\* The drain has taken two tasks retrieved together and emptied the buffer.
C4_Witness ==
    /\ pc = "drain" /\ due_tasks = <<>>
    /\ Len(handled) = 2 /\ Len(retrieved) = 2
    /\ handled[1].id < handled[2].id

\* C5: a turn of the drain on a task whose selector matches no overlay
\* invokes no closure and changes neither the application state (the queue
\* included) nor any overlay's state; the loop stays in the drain and goes
\* on with the tasks behind it.
C5_StaleSelectorIsNoOp ==
    /\ [](\A k \in 1..Len(handled) :
            IsStale(handled[k]) => handled[k].id \notin invoked)
    /\ [][(pc = "drain" /\ due_tasks # <<>> /\ IsStale(Head(due_tasks))
             /\ due_tasks' # due_tasks) =>
            /\ want_visible' = want_visible
            /\ invoked' = invoked
            /\ tasks' = tasks /\ nextId' = nextId
            /\ pc' = "drain"
            /\ due_tasks' = Tail(due_tasks)]_vars

\* A stale task was skipped and the task behind it then ran.
C5_Witness ==
    /\ pc = "drain" /\ Len(handled) = 2
    /\ IsStale(handled[1]) /\ handled[1].id \notin invoked
    /\ handled[2].id \in invoked

\* C6: the drain only handles what the iteration's retrieve_due delivered:
\* a task submitted later is in neither the buffer nor the handled tasks,
\* and an entry leaves the queue only in a retrieve_due step, so it stays
\* queued until a later iteration's retrieve_due.
C6_LateSubmissionWaits ==
    /\ [](pc = "drain" =>
            Range(handled) \cup Range(due_tasks) \subseteq Range(retrieved))
    /\ [][pc # "retrieve" => Range(tasks) \subseteq Range(tasks')]_vars

\* The drain is over and a task submitted after retrieve_due (its due-time
\* had elapsed by then) is still queued.
C6_Witness ==
    /\ pc = "drain" /\ due_tasks = <<>>
    /\ \E h \in Range(handled), e \in Range(tasks) :
         e.id > h.id /\ e.due <= h.due

\* C7: matching a device-activated, -deactivated or -updated event sets the
\* timer to the current instant and any other event leaves it; an
\* update_devices call is followed by the reschedule, which sets the timer
\* to the instant read then plus 30 seconds; nothing else changes the timer.
C7_RefreshTimer ==
    [][/\ (pc = "match" /\ pc' # "match") =>
            IF event \in {"TrackedDeviceActivated", "TrackedDeviceDeactivated",
                          "TrackedDeviceUpdated"}
            THEN next_device_update' = now
            ELSE next_device_update' = next_device_update
       /\ (pc = "update_devices" /\ pc' # pc) => pc' = "reschedule"
       /\ (pc = "reschedule" /\ pc' # pc) => next_device_update' = now + 30
       /\ next_device_update' # next_device_update =>
            pc \in {"setup", "match", "reschedule"}]_vars

\* A topology event arrived while the next refresh was pending for later
\* (a later iteration, less than 30 s after the start), and the refresh it
\* caused has just been rescheduled.
C7_Witness ==
    /\ pc = "retrieve" /\ ~first_iter
    /\ topo > 0 /\ updCalls = 1
    /\ now < 30
    /\ next_device_update = now + 30

\* C8: update_devices is never called from the event drain; after a batch
\* with topology events, however many, the refresh phase has made exactly
\* one call, and no iteration makes more than one.
C8_OneRefreshPerBurst ==
    /\ updCalls <= 1
    /\ pc \in {"events", "match"} => updCalls = 0
    /\ pc = "update_devices" => (updCalls = 0 /\ trace = <<"events">>)
    /\ (pc = "retrieve" /\ topo > 0) => updCalls = 1

\* A burst of topology events was drained and one refresh followed.
C8_Witness == pc = "retrieve" /\ topo = MaxBurst /\ topo >= 2 /\ updCalls = 1

\* C9: each hook phase calls its hook in container order, at most once per
\* overlay; render is called on the overlays whose want_visible is set and
\* on no other; when the hook phases are over after_input and after_render
\* have been called once on every overlay; no render call comes before the
\* last after_input call, no after_render call before the render phase ends.
C9_HookDispatch ==
    /\ IsPrefix(aiLog, OverlayOrder)
    /\ IsPrefix(arLog, OverlayOrder)
    /\ \A j, k \in 1..Len(rLog) : j # k => rLog[j] # rLog[k]
    /\ \A o \in Range(rLog) : want_visible[o]
    /\ rLog # <<>> => aiLog = OverlayOrder
    /\ arLog # <<>> => (Len(trace) >= 10 /\ trace[10] = "render")
    /\ (Len(trace) >= 10 /\ InLoop) =>
            rLog = SelectSeq(OverlayOrder, LAMBDA o : want_visible[o])
    /\ pc \in {"pace", "sleeping"} =>
            (aiLog = OverlayOrder /\ arLog = OverlayOrder)

\* All hooks of an iteration ran with one overlay visible and one hidden.
C9_Witness ==
    /\ pc = "sleeping"
    /\ want_visible["watch"] /\ ~want_visible["keyboard"]
    /\ aiLog = OverlayOrder /\ rLog = <<"watch">> /\ arLog = OverlayOrder

\* C10: every draw_from call uses the pointer's own pose and handle; its
\* length is the distance interact returned when that is greater than 0.001
\* (10 units) and 20.0 (200000 units) when it is not, NaN included; each
\* pointer's line is drawn in every iteration (never hidden).
C10_RayDrawPolicy ==
    /\ lastDraw # NoDraw =>
         /\ lastDraw.handle = line_id[lastDraw.origin]
         /\ (~lastDraw.dist.nan /\ lastDraw.dist.v > 10) =>
                lastDraw.len = lastDraw.dist.v
         /\ (lastDraw.dist.nan \/ lastDraw.dist.v <= 10) =>
                lastDraw.len = 200000
    /\ pc = "lines_update" => draws = <<line_id[0], line_id[1]>>

\* A pointer whose distance is exactly 0.001 got the default-length ray.
C10_Witness ==
    /\ pc = "lines_update"
    /\ lastDraw.dist = Finite(10)
    /\ lastDraw.len = 200000


\* C11: the frame interval is floor(1000 / R) milliseconds for the refresh
\* rate R queried at startup (11 ms for 90 Hz) and is never changed by the
\* loop; the sleep at the end of an iteration is the interval minus
\* (E mod interval) when the vsync query succeeded with E elapsed (7 ms for
\* 90 Hz and E = 4 ms), and exactly the interval when the query failed.
C11_FramePacing ==
    /\ [](/\ InLoop => frame_time = 1000 \div refresh_rate
          /\ (InLoop /\ refresh_rate = 90) => frame_time = 11
          /\ (pc = "sleeping" /\ vsync.ok) =>
                sleep_ms = frame_time - (vsync.elapsed % frame_time)
          /\ (pc = "sleeping" /\ ~vsync.ok) => sleep_ms = frame_time
          /\ (pc = "sleeping" /\ refresh_rate = 90 /\ vsync.ok
                /\ vsync.elapsed = 4) => sleep_ms = 7)
    /\ [][InLoop => (frame_time' = frame_time
                      /\ refresh_rate' = refresh_rate)]_vars

\* At 90 Hz a later iteration sleeps 7 ms, 4 ms after the last vsync.
C11_Witness ==
    /\ pc = "sleeping" /\ ~first_iter
    /\ refresh_rate = 90 /\ frame_time = 11
    /\ vsync = [ok |-> TRUE, elapsed |-> 4]
    /\ sleep_ms = 7

\* C12: when one of the four fallible startup steps (runtime context,
\* action manifest, input state, refresh-rate query) has failed, openvr_run
\* has returned and stays returned (no retry, no further step), and the loop
\* never started: no line visual was allocated, no event was polled, no
\* device refresh made, no task retrieved or executed, no phase run, no hook
\* invoked, no frame paced.
C12_StartupFailureReturns ==
    /\ [](/\ pc = "failed" <=> init_error # NoError
          /\ init_error # NoError =>
                /\ lines_allocated = 0 /\ line_id = [p \in Pointers |-> 0]
                /\ event = NoEvent /\ topo = 0 /\ ~quit_seen
                /\ updCalls = 0
                /\ retrieved = <<>> /\ due_tasks = <<>>
                /\ handled = <<>> /\ invoked = {}
                /\ trace = <<>> /\ draws = <<>> /\ lastDraw = NoDraw
                /\ aiLog = <<>> /\ rLog = <<>> /\ arLog = <<>>
                /\ vsync = NoVsync /\ sleep_ms = 0
                /\ first_iter)
    /\ [][pc # "failed"]_vars

\* The refresh-rate query, the last of the four steps, failed while a due
\* task and a quit event were waiting.
C12_Witness ==
    /\ pc = "failed" /\ init_error = "refresh_rate"
    /\ quit_posted
    /\ \E k \in 1..Len(tasks) : tasks[k].due <= now

\* C13: there are exactly two pointers; inside the loop each holds the
\* handle it was given before the loop, the two handles differ, the line
\* pool has given out these two handles and no other (allocate is not called
\* again), and no step of the loop reassigns a pointer's line_id; in every
\* iteration that does not quit each pointer issues exactly one draw_from,
\* on its own handle, before the single line-pool update.
C13_TwoLinesOwned ==
    /\ [](/\ Cardinality(Pointers) = 2
          /\ InLoop =>
                /\ line_id[0] # line_id[1]
                /\ \A p \in Pointers : line_id[p] \in 1..lines_allocated
                /\ lines_allocated = 2
          /\ Len(draws) <= 2
          /\ \A k \in 1..Len(draws) : draws[k] = line_id[k - 1]
          /\ (InLoop /\ Len(trace) >= 7) => Len(draws) = 2
          /\ (InLoop /\ Len(trace) < 7 /\ pc # "interact") => draws = <<>>)
    /\ [][InLoop => (line_id' = line_id
                      /\ lines_allocated' = lines_allocated)]_vars

\* A later iteration has drawn both lines, each on its own handle, and has
\* updated the line pool.
C13_Witness ==
    /\ pc = "after_input" /\ ~first_iter
    /\ line_id[0] # line_id[1]
    /\ draws = <<line_id[0], line_id[1]>>
    /\ trace[8] = "lines_update"

\* C14: once the loop has started it ends only by a quit event matched in
\* the event drain: the loop is over only with a quit seen, the step that
\* ends it is the match of a quit event, and from inside the loop no step
\* leads anywhere but into the loop or to that return; a quit posted during
\* a later phase ends nothing there, and the event drain that follows does
\* not finish while that quit is waiting.
C14_OnlyQuitTerminates ==
    /\ []((Terminated /\ init_error = NoError) => (pc = "done" /\ quit_seen))
    /\ [][(pc' = "done" /\ pc # "done") =>
                (pc = "match" /\ event = "Quit")]_vars
    /\ [][InLoop => (InLoop' \/ pc' = "done")]_vars
    /\ [][(pc = "events" /\ pc' = "refresh") => ~quit_posted]_vars

\* The ids a sequence of tasks holds.
IdsOf(s) == {s[k].id : k \in 1..Len(s)}
\* The sequence holds no task twice.
NoRepeat(s) == \A j, k \in 1..Len(s) : j # k => s[j].id # s[k].id

\* C15: no task is lost while the loop keeps iterating and no quit event is
\* delivered. Every task submitted is in exactly one place: waiting in the
\* queue, in the buffer of the running drain, or taken by a drain; a drain
\* never takes a task a drain has taken before (exactly once), and never one
\* whose due-time is still ahead (never earlier); a retrieve_due call leaves
\* no waiting task behind whose due-time has come, and the drain that
\* follows it is not left before the buffer is empty (first iteration whose
\* retrieval is at or after the due-time and the submission); and a task
\* waiting inside the loop with its due-time reached is eventually taken.
C15_NoTaskLost ==
    /\ [](/\ IdsOf(tasks) \cup IdsOf(due_tasks) \cup finished = 1..(nextId - 1)
          /\ IdsOf(tasks) \cap IdsOf(due_tasks) = {}
          /\ IdsOf(tasks) \cap finished = {}
          /\ IdsOf(due_tasks) \cap finished = {}
          /\ NoRepeat(tasks) /\ NoRepeat(due_tasks) /\ NoRepeat(handled)
          /\ IdsOf(handled) \subseteq finished
          /\ \A k \in 1..Len(due_tasks) : due_tasks[k].due <= now
          /\ \A k \in 1..Len(handled) : handled[k].due <= now
          /\ pc # "drain" => due_tasks = <<>>)
    /\ [][finished' # finished =>
            (/\ pc = "drain" /\ due_tasks # <<>>
             /\ Head(due_tasks).id \notin finished
             /\ finished' = finished \cup {Head(due_tasks).id})]_vars
    /\ [][(pc = "retrieve" /\ pc' = "drain") =>
            (/\ \A k \in 1..Len(tasks) :
                    tasks[k].due <= now => tasks[k].id \in IdsOf(due_tasks')
             /\ \A k \in 1..Len(tasks') : tasks'[k].due > now)]_vars
    /\ \A i \in 1..MaxTasks :
          (InLoop /\ \E k \in 1..Len(tasks) :
                        tasks[k].id = i /\ tasks[k].due <= now)
             ~> (i \in finished)

\* A task due at 30 s that was submitted earlier has been taken by the
\* drain of a later iteration, at 30 s, while another task still waits.
C15_Witness ==
    /\ pc = "drain" /\ ~first_iter /\ now = 30
    /\ handled # <<>> /\ handled[1].due = 30
    /\ handled[1].id \in finished
    /\ tasks # <<>>

\* C16: the first iteration always refreshes the devices (the timer starts
\* due); in a later iteration update_devices is called only if a topology
\* event was drained in it or at least 30 s have passed since the last
\* refresh completed, so an iteration with neither makes no call; and no
\* iteration makes more than one call.
C16_RefreshCadence ==
    /\ [](/\ (first_iter /\ pc = "retrieve") => updCalls = 1
          /\ pc \in {"update_devices", "reschedule"} =>
                \/ first_iter
                \/ topo > 0
                \/ now >= refreshed_at + RefreshInterval
          /\ updCalls <= 1
          /\ pc = "reschedule" => updCalls = 1)
    /\ [][updCalls' > updCalls => pc = "update_devices"]_vars

\* A later iteration, one second after the last refresh and with no
\* topology event drained, has passed the refresh check without a call.
C16_Witness ==
    /\ pc = "retrieve" /\ ~first_iter
    /\ topo = 0 /\ updCalls = 0
    /\ refreshed_at = 0 /\ now = 1

\* C17: for every positive refresh rate and every elapsed time the sleep is
\* well defined (the pacing statement never fails), greater than zero and at
\* most one frame interval, and it is the full interval when the elapsed
\* time is an exact multiple of it; the frame interval of the running loop
\* is never zero.
C17_SleepWellDefined ==
    /\ pc # "panic"
    /\ InLoop => frame_time > 0
    /\ pc = "sleeping" => (sleep_ms > 0 /\ sleep_ms <= frame_time)
    /\ (pc = "sleeping" /\ vsync.ok /\ frame_time > 0
            /\ vsync.elapsed % frame_time = 0) => sleep_ms = frame_time

\* The same statement for the rates of at most 1000 Hz.
SleepWellDefinedUpTo1000 ==
    (refresh_rate <= 1000) => C17_SleepWellDefined

\* C18: the render gate reads want_visible when the render pass reaches the
\* overlay, after the task drain and every after_input hook of the same
\* iteration. Only overlay tasks and after_input hooks change a flag, and
\* once the render pass is over, an overlay whose flag one of them changed
\* in this iteration was rendered in it exactly if the flag was left set
\* (cleared: not rendered; set: rendered); it got its after_input call
\* before the render pass and its after_render call after it all the same.
C18_GateReadsLatestFlag ==
    /\ [](/\ (InLoop /\ Len(trace) >= 10) =>
                \A o \in written : (o \in Range(rLog)) <=> want_visible[o]
          /\ written \subseteq Overlays
          /\ pc \in {"render", "after_render", "pace"} =>
                written \subseteq Range(aiLog)
          /\ pc = "pace" => written \subseteq Range(arLog))
    /\ [][want_visible' # want_visible =>
             /\ pc \in {"drain", "after_input"}
             /\ \A o \in Overlays :
                  want_visible'[o] # want_visible[o] => o \in written']_vars
    /\ [][Len(rLog') > Len(rLog) =>
             (pc = "render" /\ want_visible[rLog'[Len(rLog')]])]_vars

\* In one iteration an overlay task or hook has cleared the flag of "watch"
\* and set the flag of "keyboard": only "keyboard" was rendered, and both
\* got their after_input and after_render calls.
C18_Witness ==
    /\ pc = "pace"
    /\ written = Overlays
    /\ ~want_visible["watch"] /\ want_visible["keyboard"]
    /\ rLog = <<"keyboard">>
    /\ aiLog = OverlayOrder /\ arLog = OverlayOrder
====
